---- MODULE Spec2Model ----
(***************************************************************************)
(* Model of src/dashboard.py: the forecast dashboard's data processing     *)
(* (calculate_summary_kpis), the scenario planner, the header and the KPI  *)
(* deep dive.  A DataFrame is a sequence of rows (records); a missing      *)
(* number (NaN) is the empty sequence and a number v is <<v>>, so that a   *)
(* missing value is distinct from 0.  A Python exception is recorded in    *)
(* `raised`.  SpecComposite and SpecReserved run main over tables of the   *)
(* composite KPIs' components, SpecScenario adds the scenario planner and  *)
(* SpecDeepDive the header and the deep dive.                              *)
(***************************************************************************)
EXTENDS Integers, Sequences, FiniteSets

VARIABLES
    forecast_df_raw,     \* main: the loaded forecast table (line 214)
    cleaned_df,          \* main: the loaded historical table (lines 215, 219)
    forecast_df,         \* main: the output of calculate_summary_kpis (line 218)
    raised,              \* the exception that ended the script run, or "none"
    pc,                  \* "start" | "ready" | "error": position of the script run
    selected_kpi,        \* sidebar: "Choose a KPI to analyze" (line 228)
    driver_kpi,          \* sidebar: "Driver KPI" (line 231)
    impacted_kpi,        \* sidebar: "Impacted KPI" (line 232)
    scenario,            \* what render_scenario_planner computed and showed
    header,              \* what render_header showed
    deep_dive            \* what render_kpi_deep_dive showed in "3-Month Forecast"

vars == <<forecast_df_raw, cleaned_df, forecast_df, raised, pc,
          selected_kpi, driver_kpi, impacted_kpi, scenario, header, deep_dive>>

-----------------------------------------------------------------------------
(* Bounds of the explored inputs. *)

\* Rows of a forecast table explored for calculate_summary_kpis.
MaxRows == 3

-----------------------------------------------------------------------------
(* Numbers with NaN. *)

NaN == <<>>

Num(v) == <<v>>

IsNa(x) == x = NaN

-----------------------------------------------------------------------------
(* Strings.  TLA+ strings are atoms, so a KPI name carries its spelling,   *)
(* the sequence of its characters, on which str.lower and str.strip work.  *)

Spelling(s) ==
    CASE
       s = "New Vehicles - Retail" ->
         <<"N", "e", "w", " ", "V", "e", "h", "i", "c", "l", "e", "s", " ", "-", " ", "R", "e", "t", "a", "i", "l">>
    [] s = "new vehicles - retail" ->
         <<"n", "e", "w", " ", "v", "e", "h", "i", "c", "l", "e", "s", " ", "-", " ", "r", "e", "t", "a", "i", "l">>
    [] s = "used vehicles - retail " ->
         <<"u", "s", "e", "d", " ", "v", "e", "h", "i", "c", "l", "e", "s", " ", "-", " ", "r", "e", "t", "a", "i", "l", " ">>
    [] s = "Gross Profit - New Vehicles" ->
         <<"G", "r", "o", "s", "s", " ", "P", "r", "o", "f", "i", "t", " ", "-", " ", "N", "e", "w", " ", "V", "e", "h", "i", "c", "l", "e", "s">>
    [] s = "Gross Profit - Used Vehicles" ->
         <<"G", "r", "o", "s", "s", " ", "P", "r", "o", "f", "i", "t", " ", "-", " ", "U", "s", "e", "d", " ", "V", "e", "h", "i", "c", "l", "e", "s">>
    [] s = "Total Vehicle Sales (Verified)" ->
         <<"T", "o", "t", "a", "l", " ", "V", "e", "h", "i", "c", "l", "e", " ", "S", "a", "l", "e", "s", " ", "(", "V", "e", "r", "i", "f", "i", "e", "d", ")">>
    [] s = "Total Gross Profit (Verified)" ->
         <<"T", "o", "t", "a", "l", " ", "G", "r", "o", "s", "s", " ", "P", "r", "o", "f", "i", "t", " ", "(", "V", "e", "r", "i", "f", "i", "e", "d", ")">>
    [] s = "Total Sales" ->
         <<"T", "o", "t", "a", "l", " ", "S", "a", "l", "e", "s">>
    [] s = "used vehicles - retail" ->
         <<"u", "s", "e", "d", " ", "v", "e", "h", "i", "c", "l", "e", "s", " ", "-", " ", "r", "e", "t", "a", "i", "l">>
    [] s = "gross profit - new vehicles" ->
         <<"g", "r", "o", "s", "s", " ", "p", "r", "o", "f", "i", "t", " ", "-", " ", "n", "e", "w", " ", "v", "e", "h", "i", "c", "l", "e", "s">>
    [] s = "gross profit - used vehicles" ->
         <<"g", "r", "o", "s", "s", " ", "p", "r", "o", "f", "i", "t", " ", "-", " ", "u", "s", "e", "d", " ", "v", "e", "h", "i", "c", "l", "e", "s">>
    [] s = "total gross profit" ->
         <<"t", "o", "t", "a", "l", " ", "g", "r", "o", "s", "s", " ", "p", "r", "o", "f", "i", "t">>
    [] s = "total sales" ->
         <<"t", "o", "t", "a", "l", " ", "s", "a", "l", "e", "s">>
    [] s = "profit or loss before income tax" ->
         <<"p", "r", "o", "f", "i", "t", " ", "o", "r", " ", "l", "o", "s", "s", " ", "b", "e", "f", "o", "r", "e", " ", "i", "n", "c", "o", "m", "e", " ", "t", "a", "x">>

LowerChar(c) ==
    CASE
       c = "A" -> "a"
    [] c = "B" -> "b"
    [] c = "C" -> "c"
    [] c = "D" -> "d"
    [] c = "E" -> "e"
    [] c = "F" -> "f"
    [] c = "G" -> "g"
    [] c = "H" -> "h"
    [] c = "I" -> "i"
    [] c = "J" -> "j"
    [] c = "K" -> "k"
    [] c = "L" -> "l"
    [] c = "M" -> "m"
    [] c = "N" -> "n"
    [] c = "O" -> "o"
    [] c = "P" -> "p"
    [] c = "Q" -> "q"
    [] c = "R" -> "r"
    [] c = "S" -> "s"
    [] c = "T" -> "t"
    [] c = "U" -> "u"
    [] c = "V" -> "v"
    [] c = "W" -> "w"
    [] c = "X" -> "x"
    [] c = "Y" -> "y"
    [] c = "Z" -> "z"
      [] OTHER -> c

\* str.lower()
Lower(cs) == [i \in 1..Len(cs) |-> LowerChar(cs[i])]

\* str.strip(): leading and trailing whitespace removed (the names of the
\* explored tables hold no whitespace other than blanks)
RECURSIVE LStrip(_)
LStrip(cs) == IF cs # <<>> /\ Head(cs) = " " THEN LStrip(Tail(cs)) ELSE cs

RECURSIVE RStrip(_)
RStrip(cs) ==
    IF cs # <<>> /\ cs[Len(cs)] = " "
    THEN RStrip(SubSeq(cs, 1, Len(cs) - 1))
    ELSE cs

Strip(cs) == RStrip(LStrip(cs))

\* The KPI names that occur in the explored tables.
KnownNames ==
    {"New Vehicles - Retail", "new vehicles - retail", "used vehicles - retail ",
     "Gross Profit - New Vehicles", "Gross Profit - Used Vehicles",
     "Total Vehicle Sales (Verified)", "Total Gross Profit (Verified)",
     "Total Sales"}

\* kpi.lower().strip() of every known name, computed once
KeyOfName == [s \in KnownNames |-> Strip(Lower(Spelling(s)))]

\* kpi.lower().strip() (lines 76, 121)
NormalizedKey(kpi) == KeyOfName[kpi]

-----------------------------------------------------------------------------
(* DataFrame helpers. *)

Range(s) == {s[i] : i \in DOMAIN s}

\* Series.unique(): the distinct names in order of first appearance
Unique(df) ==
    LET F[i \in 0..Len(df)] ==
            IF i = 0 THEN <<>>
            ELSE IF \E j \in 1..(i - 1) : df[j].english_name = df[i].english_name
                 THEN F[i - 1]
                 ELSE Append(F[i - 1], df[i].english_name)
    IN  F[Len(df)]

\* {kpi.lower().strip(): kpi for kpi in unique_kpis} (lines 76, 121): a dict
\* comprehension, so a later name overwrites an earlier one with the same key
KpiMap(df) ==
    LET u == Unique(df)
    IN  [k \in {NormalizedKey(u[i]) : i \in DOMAIN u} |->
            u[CHOOSE i \in DOMAIN u :
                /\ NormalizedKey(u[i]) = k
                /\ \A j \in DOMAIN u : NormalizedKey(u[j]) = k => j <= i]]

\* df[df['english_name'] == kpi]
RowsOf(df, kpi) ==
    LET Test(r) == r.english_name = kpi
    IN  SelectSeq(df, Test)

\* the values of a set of integers in ascending order
SortedSeq(S) ==
    LET F[T \in SUBSET S] ==
            IF T = {} THEN <<>>
            ELSE LET m == CHOOSE x \in T : \A y \in T : x <= y
                 IN  <<m>> \o F[T \ {m}]
    IN  F[S]

-----------------------------------------------------------------------------
(* calculate_summary_kpis (lines 69-108). *)

\* A slip: both frames filled with 0 before adding (fillna(0)), so that a value
\* missing on both sides becomes 0.
AddFillZeros(x, y) ==
    Num((IF IsNa(x) THEN 0 ELSE x[1]) + (IF IsNa(y) THEN 0 ELSE y[1]))

\* DataFrame.add(fill_value=0) on one cell of a numeric column: a value
\* missing on one side only is filled with 0; missing on both sides stays NaN
AddFill(x, y) ==
    IF IsNa(x) /\ IsNa(y) THEN NaN
    ELSE Num((IF IsNa(x) THEN 0 ELSE x[1]) + (IF IsNa(y) THEN 0 ELSE y[1]))

\* The index of left.add(right): frames whose date indexes are equal keep the
\* index; otherwise the frames are aligned on the sorted union of the dates.
AlignedIndex(left, right) ==
    LET ld == [i \in DOMAIN left |-> left[i].date]
        rd == [i \in DOMAIN right |-> right[i].date]
    IN  IF ld = rd THEN ld ELSE SortedSeq(Range(ld) \cup Range(rd))

\* The cell of a column at a date after alignment: NaN where the frame has no
\* row at that date.
CellAt(frame, d, col) ==
    IF \E i \in DOMAIN frame : frame[i].date = d
    THEN (frame[CHOOSE i \in DOMAIN frame : frame[i].date = d])[col]
    ELSE NaN

\* left.set_index('date').add(right.set_index('date'), fill_value=0)
\*     [['actual_value', 'predicted_value']].reset_index()   (lines 89-92, 101-104)
\* add works on every column, english_name included.  Where a date is in one
\* frame only, the other frame's english_name is missing and is filled with 0,
\* and 0 + str raises TypeError; where both have the date the names are
\* concatenated and the column is then dropped by the selection.
FrameAdd(left, right) ==
    LET idx == AlignedIndex(left, right)
        Has(frame, d) == \E i \in DOMAIN frame : frame[i].date = d
    IN  IF \E i \in DOMAIN idx : Has(left, idx[i]) # Has(right, idx[i])
        THEN [raised |-> "TypeError", rows |-> <<>>]
        ELSE [raised |-> "none",
              rows |-> [i \in DOMAIN idx |->
                  [date |-> idx[i],
                   actual_value |->
                       AddFill(CellAt(left, idx[i], "actual_value"),
                               CellAt(right, idx[i], "actual_value")),
                   predicted_value |->
                       AddFill(CellAt(left, idx[i], "predicted_value"),
                               CellAt(right, idx[i], "predicted_value"))]]]

\* One "if components exist" block (lines 85-94, 97-106): df_processed with the
\* total rows appended, or unchanged when a component key is not in kpi_map.
AppendTotal(df_processed, kpi_map, a_lower, b_lower, total_name) ==
    IF a_lower \in DOMAIN kpi_map /\ b_lower \in DOMAIN kpi_map
    THEN LET sum == FrameAdd(RowsOf(df_processed, kpi_map[a_lower]),
                             RowsOf(df_processed, kpi_map[b_lower]))
             total == [i \in DOMAIN sum.rows |->
                          [english_name |-> total_name,
                           date |-> sum.rows[i].date,
                           actual_value |-> sum.rows[i].actual_value,
                           predicted_value |-> sum.rows[i].predicted_value]]
         IN  [raised |-> sum.raised, df |-> df_processed \o total]
    ELSE [raised |-> "none", df |-> df_processed]

new_sales_lower == Spelling("new vehicles - retail")

used_sales_lower == Spelling("used vehicles - retail")

new_gp_lower == Spelling("gross profit - new vehicles")

used_gp_lower == Spelling("gross profit - used vehicles")

\* A slip: the total stored under the name of one of its components.
TotalUnderComponentName == "New Vehicles - Retail"

TotalSalesName == "Total Vehicle Sales (Verified)"

TotalGrossProfitName == "Total Gross Profit (Verified)"

\* calculate_summary_kpis(df): the returned frame, or the exception raised.
\* kpi_map is built once, from the input; the second block reads the frame the
\* first block produced.
calculate_summary_kpis(df) ==
    LET kpi_map == KpiMap(df)
        sales == AppendTotal(df, kpi_map, new_sales_lower, used_sales_lower,
                             TotalSalesName)
    IN  IF sales.raised # "none" THEN [raised |-> sales.raised, df |-> <<>>]
        ELSE LET gp == AppendTotal(sales.df, kpi_map, new_gp_lower, used_gp_lower,
                                   TotalGrossProfitName)
             IN  IF gp.raised # "none" THEN [raised |-> gp.raised, df |-> <<>>]
                 ELSE gp
-----------------------------------------------------------------------------
(* The script run (main, lines 211-239).  Streamlit runs main from the top  *)
(* on every interaction; the loaded tables are cached and stay as loaded.   *)

NotRendered == [status |-> "none", rows |-> <<>>]

NoScenario ==
    [status |-> "none", built_matrix |-> FALSE, selected_month |-> 0,
     change |-> 0, correlation |-> NaN, original_driver_pred |-> NaN,
     original_impacted_pred |-> NaN, adjusted_driver_pred |-> NaN,
     adjusted_impacted_pred |-> NaN]

\* A slip: a rerun processing the frame the previous run produced.
MainInputPrevious(raw, previous) == IF previous = <<>> THEN raw ELSE previous

\* The frame main hands to calculate_summary_kpis (line 218): the loaded table,
\* not the frame of an earlier run.
MainInput(raw, previous) == raw

\* main up to the page sections (lines 214-220): process the loaded table.
main ==
    /\ pc = "start"
    /\ LET r == calculate_summary_kpis(MainInput(forecast_df_raw, forecast_df))
       IN  /\ forecast_df' = r.df
           /\ raised' = r.raised
           /\ pc' = IF r.raised = "none" THEN "ready" ELSE "error"
    /\ selected_kpi' = ""
    /\ driver_kpi' = ""
    /\ impacted_kpi' = ""
    /\ scenario' = NoScenario
    /\ header' = <<>>
    /\ deep_dive' = NotRendered
    /\ UNCHANGED <<forecast_df_raw, cleaned_df>>

\* An interaction: the script is run again over the same loaded tables.  The
\* page keeps showing the previous run's output until the new run replaces it.
Rerun ==
    /\ pc \in {"ready", "error"}
    /\ pc' = "start"
    /\ UNCHANGED <<forecast_df_raw, cleaned_df, forecast_df, raised,
                   selected_kpi, driver_kpi, impacted_kpi, scenario, header,
                   deep_dive>>

-----------------------------------------------------------------------------
(* Real numbers of the scenario calculation, kept exact:                    *)
(* [rat, irr, rad, den] stands for (rat + irr * sqrt(rad)) / den, den > 0.  *)
(* A Pearson coefficient is cov / sqrt(vx * vy), so one square root is all  *)
(* the calculation ever needs.                                              *)

Abs(n) == IF n < 0 THEN -n ELSE n

RECURSIVE GCD(_, _)
GCD(a, b) == IF b = 0 THEN a ELSE GCD(b, a % b)

\* the same number in lowest terms
Reduced(x) ==
    LET g == GCD(GCD(Abs(x.rat), Abs(x.irr)), x.den)
    IN  [rat |-> x.rat \div g, irr |-> x.irr \div g,
         rad |-> IF x.irr = 0 THEN 1 ELSE x.rad, den |-> x.den \div g]

RInt(n) == [rat |-> n, irr |-> 0, rad |-> 1, den |-> 1]

\* x * a / b, for integers a and b > 0
Scaled(x, a, b) ==
    Reduced([rat |-> x.rat * a, irr |-> x.irr * a, rad |-> x.rad, den |-> x.den * b])

\* n + x, for an integer n
Plus(n, x) ==
    Reduced([rat |-> x.rat + n * x.den, irr |-> x.irr, rad |-> x.rad, den |-> x.den])

\* the integer square root of p when p is a perfect square, else 0
ExactRoot(p) ==
    IF \E r \in 1..p : r * r = p THEN CHOOSE r \in 1..p : r * r = p ELSE 0

\* cov / sqrt(p), for p > 0
OverRoot(cov, p) ==
    IF ExactRoot(p) # 0
    THEN Reduced([rat |-> cov, irr |-> 0, rad |-> 1, den |-> ExactRoot(p)])
    ELSE Reduced([rat |-> 0, irr |-> cov, rad |-> p, den |-> p])

-----------------------------------------------------------------------------
(* render_scenario_planner (lines 142-183). *)

\* A slip: future rows taken to be those without a predicted value.
FutureDatesByPrediction(df, kpi) ==
    LET Future(r) == r.english_name = kpi /\ IsNa(r.predicted_value)
        rows == SelectSeq(df, Future)
    IN  [i \in DOMAIN rows |-> rows[i].date]

\* driver_data[driver_data['actual_value'].isna()]['date'] (lines 146-147)
FutureDates(df, kpi) ==
    LET Future(r) == r.english_name = kpi /\ IsNa(r.actual_value)
        rows == SelectSeq(df, Future)
    IN  [i \in DOMAIN rows |-> rows[i].date]

\* cleaned_df.pivot_table(index='date', columns='english_name',
\*     values='monthly_value').fillna(0)   (line 158): one row per date and one
\* column per KPI of the table, a cell without a record being 0
PivotDates(hist) == {r.date : r \in hist}

PivotColumns(hist) == {r.english_name : r \in hist}

PivotCell(hist, d, kpi) ==
    LET recs == {r \in hist : r.date = d /\ r.english_name = kpi}
    IN  IF recs = {} THEN 0 ELSE (CHOOSE r \in recs : TRUE).monthly_value

RECURSIVE SumOfProducts(_, _, _, _)
SumOfProducts(hist, ds, a, b) ==
    IF ds = {} THEN 0
    ELSE LET d == CHOOSE x \in ds : TRUE
         IN  PivotCell(hist, d, a) * PivotCell(hist, d, b)
                 + SumOfProducts(hist, ds \ {d}, a, b)

RECURSIVE SumOfColumn(_, _, _)
SumOfColumn(hist, ds, a) ==
    IF ds = {} THEN 0
    ELSE LET d == CHOOSE x \in ds : TRUE
         IN  PivotCell(hist, d, a) + SumOfColumn(hist, ds \ {d}, a)

\* n * sum(x * y) - sum(x) * sum(y): n^2 times the covariance of two columns
Comoment(hist, a, b) ==
    LET ds == PivotDates(hist)
    IN  Cardinality(ds) * SumOfProducts(hist, ds, a, b)
            - SumOfColumn(hist, ds, a) * SumOfColumn(hist, ds, b)

\* DataFrame.corr(): the Pearson coefficient of two columns,
\* cov / sqrt(var_a * var_b), and NaN when that divisor is 0 (a constant
\* column, or a single date)
Pearson(hist, a, b) ==
    LET p == Comoment(hist, a, a) * Comoment(hist, b, b)
    IN  IF p = 0 THEN NaN ELSE Num(OverRoot(Comoment(hist, a, b), p))

\* The value used when a KPI is not a column of the matrix (line 159).
AbsentCorrelation == Num(RInt(0))

\* correlation_matrix.loc[driver, impacted] if both are columns else 0.0 (line 159)
CorrelationLookup(hist, driver, impacted) ==
    IF driver \in PivotColumns(hist) /\ impacted \in PivotColumns(hist)
    THEN Pearson(hist, driver, impacted)
    ELSE AbsentCorrelation

\* forecast_df.loc[(name == kpi) & (date == month), 'predicted_value'] (lines 161-162)
PredictedAt(df, kpi, month) ==
    LET At(r) == r.english_name = kpi /\ r.date = month
        rows == SelectSeq(df, At)
    IN  [i \in DOMAIN rows |-> rows[i].predicted_value]

\* original_driver_pred * (1 + change_percentage) (line 164); the slider's
\* integer percentage is divided by 100 (line 155)
AdjustedDriver(original, percent) ==
    IF IsNa(original) THEN NaN
    ELSE Num(Scaled(Plus(1, Scaled(RInt(percent), 1, 100)), original[1], 1))

\* A slip: the impacted KPI moved by the whole percentage, the correlation
\* left out.
AdjustedImpactedInFull(original, percent, correlation) ==
    IF IsNa(original) \/ IsNa(correlation) THEN NaN
    ELSE Num(Scaled(Plus(1, Scaled(RInt(percent), 1, 100)), original[1], 1))

\* original_impacted_pred * (1 + (change_percentage * correlation)) (line 165)
AdjustedImpacted(original, percent, correlation) ==
    IF IsNa(original) \/ IsNa(correlation) THEN NaN
    ELSE Num(Scaled(Plus(1, Scaled(correlation[1], percent, 100)), original[1], 1))

\* The slider's range and default (line 155).
SliderMin == -50

SliderMax == 50

SliderDefault == 10

\* The percentages explored: the slider's ends, its default, and no change.
SliderChoices == {SliderMin, 0, SliderDefault, SliderMax}

\* sorted(forecast_df['english_name'].unique()) (line 220), as a set: the
\* options of the sidebar's select boxes
KpiList(df) == {df[i].english_name : i \in DOMAIN df}

\* Sidebar: the user's driver and impacted KPI (lines 231-232).
SelectScenarioKpis ==
    /\ pc = "ready"
    /\ driver_kpi = ""
    /\ \E d \in KpiList(forecast_df), k \in KpiList(forecast_df) :
           /\ driver_kpi' = d
           /\ impacted_kpi' = k
    /\ UNCHANGED <<forecast_df_raw, cleaned_df, forecast_df, raised, pc,
                   selected_kpi, scenario, header, deep_dive>>

\* render_scenario_planner(forecast_df, cleaned_df, driver_kpi, impacted_kpi).
\* The month is one of the driver's future dates and the percentage one of the
\* slider's values (lines 154-155).
render_scenario_planner ==
    /\ pc = "ready"
    /\ driver_kpi # ""
    /\ scenario.status = "none"
    /\ LET future_dates == FutureDates(forecast_df, driver_kpi)
       IN  IF future_dates = <<>>
           THEN /\ scenario' = [NoScenario EXCEPT !.status = "NoFutureData"]
                /\ UNCHANGED <<raised, pc>>
           ELSE \E m \in Range(future_dates), percent \in SliderChoices :
                    LET correlation ==
                            CorrelationLookup(cleaned_df, driver_kpi, impacted_kpi)
                        drv == PredictedAt(forecast_df, driver_kpi, m)
                        imp == PredictedAt(forecast_df, impacted_kpi, m)
                        sofar == [NoScenario EXCEPT
                                     !.built_matrix = TRUE,
                                     !.selected_month = m,
                                     !.change = percent,
                                     !.correlation = correlation,
                                     !.original_driver_pred = drv[1]]
                    IN  IF imp = <<>>
                        THEN /\ scenario' = [sofar EXCEPT !.status = "IndexError"]
                             /\ raised' = "IndexError"
                             /\ pc' = "error"
                        ELSE /\ scenario' =
                                    [sofar EXCEPT
                                        !.status = "Result",
                                        !.original_impacted_pred = imp[1],
                                        !.adjusted_driver_pred =
                                            AdjustedDriver(drv[1], percent),
                                        !.adjusted_impacted_pred =
                                            AdjustedImpacted(imp[1], percent,
                                                             correlation)]
                             /\ UNCHANGED <<raised, pc>>
    /\ UNCHANGED <<forecast_df_raw, cleaned_df, forecast_df, selected_kpi,
                   driver_kpi, impacted_kpi, header, deep_dive>>

-----------------------------------------------------------------------------
(* render_header (lines 111-140) and render_kpi_deep_dive (lines 185-208). *)

\* The number of rows .head(3) keeps (lines 129, 203).
HeadCount == 3

\* df[(df['english_name'] == kpi) & (df['actual_value'].isna())].head(3)
\* (lines 129, 189-203): the first rows, in the frame's order, of the KPI's
\* rows without an actual value
NextForecasts(df, kpi) ==
    LET Future(r) == r.english_name = kpi /\ IsNa(r.actual_value)
        rows == SelectSeq(df, Future)
    IN  SubSeq(rows, 1, IF Len(rows) < HeadCount THEN Len(rows) ELSE HeadCount)

\* what a metric or a bar shows of a row: its month and its predicted value
Shown(rows) ==
    [i \in DOMAIN rows |->
        [date |-> rows[i].date, predicted_value |-> rows[i].predicted_value]]

\* key_kpis_lower (lines 115-119): card title -> lowercase KPI key
key_kpis_lower ==
    [title \in {"Total Gross Profit", "Total Sales",
                "profit or loss before income tax"} |->
        CASE title = "Total Gross Profit" -> Spelling("total gross profit")
          [] title = "Total Sales" -> Spelling("total sales")
          [] title = "profit or loss before income tax" ->
                 Spelling("profit or loss before income tax")]

\* One card of the header (lines 126-140).
HeaderCard(df, kpi_lower) ==
    LET available_kpi_map == KpiMap(df)
    IN  IF kpi_lower \in DOMAIN available_kpi_map
        THEN LET forecasts == NextForecasts(df, available_kpi_map[kpi_lower])
             IN  IF forecasts # <<>>
                 THEN [status |-> "metrics", rows |-> Shown(forecasts)]
                 ELSE [status |-> "No forecast", rows |-> <<>>]
        ELSE [status |-> "KPI not found", rows |-> <<>>]

\* render_header(forecast_df)
render_header ==
    /\ pc = "ready"
    /\ header = <<>>
    /\ header' = [title \in DOMAIN key_kpis_lower |->
                     HeaderCard(forecast_df, key_kpis_lower[title])]
    /\ UNCHANGED <<forecast_df_raw, cleaned_df, forecast_df, raised, pc,
                   selected_kpi, driver_kpi, impacted_kpi, scenario, deep_dive>>

\* Sidebar: the KPI to analyze (line 228).
SelectKpi ==
    /\ pc = "ready"
    /\ selected_kpi = ""
    /\ \E k \in KpiList(forecast_df) : selected_kpi' = k
    /\ UNCHANGED <<forecast_df_raw, cleaned_df, forecast_df, raised, pc,
                   driver_kpi, impacted_kpi, scenario, header, deep_dive>>

\* render_kpi_deep_dive(forecast_df, selected_kpi): the "3-Month Forecast"
\* column (lines 201-208); the bar chart is drawn when there are forecasts.
render_kpi_deep_dive ==
    /\ pc = "ready"
    /\ selected_kpi # ""
    /\ deep_dive.status = "none"
    /\ LET forecasts == NextForecasts(forecast_df, selected_kpi)
       IN  deep_dive' = [status |-> IF forecasts # <<>> THEN "chart" ELSE "empty",
                         rows |-> Shown(forecasts)]
    /\ UNCHANGED <<forecast_df_raw, cleaned_df, forecast_df, raised, pc,
                   selected_kpi, driver_kpi, impacted_kpi, scenario, header>>

-----------------------------------------------------------------------------
(* Loaded tables (load_and_validate_data, lines 36-66): non-empty, named.   *)
(* The explored forecast tables hold at most one row per (KPI, date); a     *)
(* row's numbers are fixed by its KPI and date so that rows differ.         *)

\* Months of the explored tables.
NumDates == 2

Dates == 1..NumDates

\* both numbers / a future row (no actual) / an actual without a prediction
RowKinds == {"both", "forecast", "actual"}

InputActual(kpi, d) == 10 * Len(Spelling(kpi)) + d

InputPredicted(kpi, d) == 1000 + 10 * Len(Spelling(kpi)) + d

MkRow(kpi, d, kind) ==
    [english_name |-> kpi, date |-> d,
     actual_value |-> IF kind = "forecast" THEN NaN ELSE Num(InputActual(kpi, d)),
     predicted_value |->
         IF kind = "actual" THEN NaN ELSE Num(InputPredicted(kpi, d))]

UniqueKeys(df) ==
    \A i, j \in DOMAIN df :
        (df[i].english_name = df[j].english_name /\ df[i].date = df[j].date)
            => i = j

\* The rows a forecast table over the given KPI names and dates may hold.
RowUniverse(names, dates) ==
    {MkRow(k, d, kind) : k \in names, d \in dates, kind \in RowKinds}

\* A historical table that passes validation, for runs that do not read it.
SomeCleaned ==
    {[english_name |-> "New Vehicles - Retail", date |-> 1, monthly_value |-> 1]}

\* The state after loading: a forecast table of 1..n rows over the given KPI
\* names and dates, and one of the given historical tables.
InitWith(names, dates, n, histories) ==
    /\ \E len \in 1..n :
           /\ forecast_df_raw \in [1..len -> RowUniverse(names, dates)]
           /\ UniqueKeys(forecast_df_raw)
    /\ cleaned_df \in histories
    /\ forecast_df = <<>>
    /\ raised = "none"
    /\ pc = "start"
    /\ selected_kpi = ""
    /\ driver_kpi = ""
    /\ impacted_kpi = ""
    /\ scenario = NoScenario
    /\ header = <<>>
    /\ deep_dive = NotRendered

-----------------------------------------------------------------------------
(* Composite KPIs: runs of main over tables holding the component KPIs.     *)

ComponentNames ==
    {"New Vehicles - Retail", "used vehicles - retail ",
     "Gross Profit - New Vehicles", "Gross Profit - Used Vehicles"}

InitComposite == InitWith(ComponentNames, Dates, MaxRows, {SomeCleaned})

NextComposite == main \/ Rerun

SpecComposite == InitComposite /\ [][NextComposite]_vars

\* Tables that may already hold a row under a composite's name, or two names
\* with the same normalized key.
ReservedRunNames ==
    {"New Vehicles - Retail", "new vehicles - retail", "used vehicles - retail ",
     "Total Vehicle Sales (Verified)"}

InitReserved == InitWith(ReservedRunNames, Dates, MaxRows, {SomeCleaned})

SpecReserved == InitReserved /\ [][NextComposite]_vars

-----------------------------------------------------------------------------
(* Scenario planning: runs over tables of a driver and an impacted KPI.     *)

\* Rows of a forecast table explored for the scenario planner.
MaxScenarioRows == 2

\* Months of the explored historical tables.
NumHistDates == 2

ScenarioNames == {"New Vehicles - Retail", "Gross Profit - New Vehicles"}

\* The historical tables: for each KPI and month either no record or a record
\* of value 1 (pivot_table does not depend on the order of the records, so the
\* table is kept as a set); validation rejects the empty table.
HistoricalTables ==
    {h \in SUBSET {[english_name |-> k, date |-> d, monthly_value |-> 1] :
                       k \in ScenarioNames, d \in 1..NumHistDates} : h # {}}

InitScenario ==
    InitWith(ScenarioNames, Dates, MaxScenarioRows, HistoricalTables)

NextScenario == main \/ SelectScenarioKpis \/ render_scenario_planner

SpecScenario == InitScenario /\ [][NextScenario]_vars

-----------------------------------------------------------------------------
(* Header and deep dive: runs over tables of one KPI's months in any order. *)

\* Rows of a forecast table explored for the header and the deep dive.
MaxDeepRows == 4

\* Months of those tables.
NumDeepDates == 4

InitDeepDive ==
    InitWith({"Total Sales"}, 1..NumDeepDates, MaxDeepRows, {SomeCleaned})

NextDeepDive == main \/ SelectKpi \/ render_header \/ render_kpi_deep_dive

SpecDeepDive == InitDeepDive /\ [][NextDeepDive]_vars

-----------------------------------------------------------------------------
(* What the specification says about the composite KPIs, stated over the    *)
(* loaded table and the frame main holds after the run.                     *)

HasRun == pc # "start"

TheComposites ==
    {[a |-> new_sales_lower, b |-> used_sales_lower,
      name |-> "Total Vehicle Sales (Verified)"],
     [a |-> new_gp_lower, b |-> used_gp_lower,
      name |-> "Total Gross Profit (Verified)"]}

Resolves(c) ==
    /\ c.a \in DOMAIN KpiMap(forecast_df_raw)
    /\ c.b \in DOMAIN KpiMap(forecast_df_raw)

\* the rows after the input's rows
AppendedRows == SubSeq(forecast_df, Len(forecast_df_raw) + 1, Len(forecast_df))

AppendedUnder(name) == {i \in DOMAIN AppendedRows : AppendedRows[i].english_name = name}

DatesOfKpi(kpi) == {r.date : r \in {x \in Range(forecast_df_raw) : x.english_name = kpi}}

\* the component's value at a date: missing when it has no row there
ComponentCell(kpi, d, col) ==
    LET rows == {r \in Range(forecast_df_raw) : r.english_name = kpi /\ r.date = d}
    IN  IF rows = {} THEN NaN ELSE (CHOOSE r \in rows : TRUE)[col]

OrZero(x) == IF IsNa(x) THEN 0 ELSE x[1]

ValueColumns == {"actual_value", "predicted_value"}

\* C1: whenever both components of a composite resolve, the run completes and
\* the composite has exactly one row per date of the union of the components'
\* dates, each value being the sum of the two components' values at that date,
\* an absent side counting as 0.
C1_TotalsOverDateUnion ==
    HasRun =>
        \A c \in TheComposites :
            Resolves(c) =>
                LET ka == KpiMap(forecast_df_raw)[c.a]
                    kb == KpiMap(forecast_df_raw)[c.b]
                    union == DatesOfKpi(ka) \cup DatesOfKpi(kb)
                    got == AppendedUnder(c.name)
                IN  /\ raised = "none"
                    /\ {AppendedRows[i].date : i \in got} = union
                    /\ Cardinality(got) = Cardinality(union)
                    /\ \A i \in got : \A col \in ValueColumns :
                           LET x == ComponentCell(ka, AppendedRows[i].date, col)
                               y == ComponentCell(kb, AppendedRows[i].date, col)
                           IN  (~IsNa(x) \/ ~IsNa(y)) =>
                                   AppendedRows[i][col] = Num(OrZero(x) + OrZero(y))

\* C2: in a composite row a field is missing exactly when it is missing on
\* both component sides at that date (otherwise it is a number).
C2_MissingOnlyWhenBothMissing ==
    (HasRun /\ raised = "none") =>
        \A c \in TheComposites :
            Resolves(c) =>
                \A i \in AppendedUnder(c.name) : \A col \in ValueColumns :
                    IsNa(AppendedRows[i][col]) <=>
                        /\ IsNa(ComponentCell(KpiMap(forecast_df_raw)[c.a],
                                              AppendedRows[i].date, col))
                        /\ IsNa(ComponentCell(KpiMap(forecast_df_raw)[c.b],
                                              AppendedRows[i].date, col))

\* A composite row whose actual_value is missing on both sides (and stays
\* missing) while its predicted_value is a number.
C2_Witness ==
    /\ HasRun
    /\ raised = "none"
    /\ \E i \in AppendedUnder("Total Vehicle Sales (Verified)") :
           /\ IsNa(AppendedRows[i].actual_value)
           /\ ~IsNa(AppendedRows[i].predicted_value)

\* C3: the output is the input's rows, unchanged and in order, followed only by
\* composite rows, and a composite's rows are appended exactly when both of its
\* component keys are in the name map.
C3_InputKeptTotalsAppended ==
    HasRun =>
        /\ Len(forecast_df) >= Len(forecast_df_raw)
        /\ SubSeq(forecast_df, 1, Len(forecast_df_raw)) = forecast_df_raw
        /\ \A i \in DOMAIN AppendedRows :
               \E c \in TheComposites : AppendedRows[i].english_name = c.name
        /\ \A c \in TheComposites : Resolves(c) <=> AppendedUnder(c.name) # {}

\* C6 as claimed: (kpi, date) pairs unique in the input stay unique in the
\* output, for every input table.
C6_KeysStayUnique ==
    (HasRun /\ raised = "none") => UniqueKeys(forecast_df)

\* C6 as amended: they stay unique when the input holds no row under a
\* composite's name.
C6_KeysStayUniqueWithoutReserved ==
    (/\ HasRun
     /\ raised = "none"
     /\ \A i \in DOMAIN forecast_df_raw :
            forecast_df_raw[i].english_name \notin
                {"Total Vehicle Sales (Verified)", "Total Gross Profit (Verified)"})
        => UniqueKeys(forecast_df)

\* A run that appended composite rows to a table without reserved names.
C6_Witness ==
    /\ HasRun
    /\ raised = "none"
    /\ Len(forecast_df) > Len(forecast_df_raw)
    /\ \A i \in DOMAIN forecast_df_raw :
           forecast_df_raw[i].english_name # "Total Vehicle Sales (Verified)"

-----------------------------------------------------------------------------
(* What the specification says about the scenario planner.                  *)

\* the predicted value of the KPI's row at a month (rows are unique per KPI
\* and month), or no value when there is no such row
PredictedOfKpiAt(kpi, month) ==
    LET rows == {r \in Range(forecast_df) : r.english_name = kpi /\ r.date = month}
    IN  IF rows = {} THEN NaN ELSE (CHOOSE r \in rows : TRUE).predicted_value

\* the correlation the planner is to use: the matrix entry, or 0 when either
\* KPI is not in the matrix
CorrelationToUse ==
    IF {driver_kpi, impacted_kpi} \subseteq {r.english_name : r \in cleaned_df}
    THEN Pearson(cleaned_df, driver_kpi, impacted_kpi)
    ELSE <<[rat |-> 0, irr |-> 0, rad |-> 1, den |-> 1]>>

\* y = v * (1 + (percent / 100) * c), by cross-multiplication
IsProjection(y, v, percent, c) ==
    /\ y.rat * 100 * c.den = v * (100 * c.den + percent * c.rat) * y.den
    /\ y.irr * 100 * c.den = v * percent * c.irr * y.den
    /\ (y.irr # 0 => y.rad = c.rad)

\* C4: the planner's result is originalDriver * (1 + change) and
\* originalImpacted * (1 + change * corr), the originals being the predicted
\* values of the two KPIs at the chosen month and corr the matrix entry or 0
\* when a KPI is not in the matrix (a missing operand gives a missing result);
\* with corr = 0 the impacted value is unchanged.
C4_ScenarioProjection ==
    scenario.status = "Result" =>
        LET m == scenario.selected_month
            v == PredictedOfKpiAt(driver_kpi, m)
            w == PredictedOfKpiAt(impacted_kpi, m)
            c == CorrelationToUse
            one == [rat |-> 1, irr |-> 0, rad |-> 1, den |-> 1]
        IN  /\ scenario.original_driver_pred = v
            /\ scenario.original_impacted_pred = w
            /\ scenario.correlation = c
            /\ IsNa(scenario.adjusted_driver_pred) <=> IsNa(v)
            /\ ~IsNa(v) =>
                   IsProjection(scenario.adjusted_driver_pred[1], v[1],
                                scenario.change, one)
            /\ IsNa(scenario.adjusted_impacted_pred) <=> (IsNa(w) \/ IsNa(c))
            /\ (~IsNa(w) /\ ~IsNa(c)) =>
                   IsProjection(scenario.adjusted_impacted_pred[1], w[1],
                                scenario.change, c[1])
            /\ (~IsNa(w) /\ ~IsNa(c) /\ c[1].rat = 0 /\ c[1].irr = 0) =>
                   scenario.adjusted_impacted_pred =
                       <<[rat |-> w[1], irr |-> 0, rad |-> 1, den |-> 1]>>

\* A result with a non-zero correlation and a non-zero change: the impacted
\* value moved.
C4_Witness ==
    /\ scenario.status = "Result"
    /\ scenario.change # 0
    /\ ~IsNa(scenario.correlation)
    /\ scenario.correlation[1].rat # 0
    /\ ~IsNa(scenario.original_impacted_pred)
    /\ ~IsNa(scenario.adjusted_impacted_pred)
    /\ scenario.adjusted_impacted_pred[1] #
           [rat |-> scenario.original_impacted_pred[1], irr |-> 0, rad |-> 1,
            den |-> 1]

\* |x| <= 1
InUnitInterval(x) ==
    /\ (x.rat = 0 \/ x.irr = 0)
    /\ x.rat * x.rat + x.irr * x.irr * x.rad <= x.den * x.den

\* C7: every entry of the correlation matrix the planner builds is symmetric,
\* lies in [-1, 1] and is a number (0.0 where the coefficient is undefined),
\* so the projected impacted value is a number whenever the original is.
C7_CorrelationIsANumber ==
    scenario.built_matrix =>
        /\ \A a, b \in PivotColumns(cleaned_df) :
               /\ Pearson(cleaned_df, a, b) = Pearson(cleaned_df, b, a)
               /\ ~IsNa(Pearson(cleaned_df, a, b))
               /\ InUnitInterval(Pearson(cleaned_df, a, b)[1])
        /\ ~IsNa(scenario.correlation)
        /\ (scenario.status = "Result" /\ ~IsNa(scenario.original_impacted_pred))
               => ~IsNa(scenario.adjusted_impacted_pred)

HasFutureRow(kpi) ==
    \E i \in DOMAIN forecast_df :
        forecast_df[i].english_name = kpi /\ IsNa(forecast_df[i].actual_value)

\* C9: the planner reports "no future data" exactly when the driver has no row
\* without an actual value, and then it has neither built the correlation
\* matrix nor read a predicted value; otherwise it goes on to the calculation.
C9_NoFutureDataReturnsEarly ==
    scenario.status # "none" =>
        /\ scenario.status = "NoFutureData" <=> ~HasFutureRow(driver_kpi)
        /\ scenario.status = "NoFutureData" =>
               /\ ~scenario.built_matrix
               /\ IsNa(scenario.correlation)
               /\ IsNa(scenario.original_driver_pred)
               /\ IsNa(scenario.original_impacted_pred)
               /\ raised = "none"
        /\ scenario.status # "NoFutureData" => scenario.built_matrix

\* The planner returned early for a driver that has rows, none of them future.
C9_Witness ==
    /\ scenario.status = "NoFutureData"
    /\ driver_kpi \in KpiList(forecast_df)

\* C10: for every driver and impacted KPI of the list and every month the
\* control offers, the planner yields a result; it never fails for want of a
\* matching row.
C10_PlannerNeverFails ==
    scenario.status # "none" =>
        /\ scenario.status \in {"Result", "NoFutureData"}
        /\ raised = "none"

-----------------------------------------------------------------------------
(* What the specification says about the 3-month forecast slice.            *)

\* the KPI's rows without an actual value that have the earliest dates, at
\* most three, in ascending date order
EarliestForecasts(kpi) ==
    LET future == {r \in Range(forecast_df) :
                      r.english_name = kpi /\ IsNa(r.actual_value)}
        dates == SortedSeq({r.date : r \in future})
        n == IF Len(dates) < 3 THEN Len(dates) ELSE 3
    IN  [i \in 1..n |->
            [date |-> dates[i],
             predicted_value |->
                 (CHOOSE r \in future : r.date = dates[i]).predicted_value]]

\* C5: whatever the order of the table's rows, the deep dive's and the header's
\* forecast slices are the KPI's future rows with the 3 earliest dates, in
\* ascending date order.
C5_SliceIsEarliestThree ==
    /\ deep_dive.status # "none" => deep_dive.rows = EarliestForecasts(selected_kpi)
    /\ header # <<>> =>
           \A title \in DOMAIN header :
               header[title].status = "metrics" =>
                   header[title].rows =
                       EarliestForecasts(KpiMap(forecast_df)[key_kpis_lower[title]])

====
